---- MODULE Spec2Model ----
(***************************************************************************)
(* State-machine model of src/src/pages/AsteroidImpactDashboard.jsx: the   *)
(* React state of the dashboard, the values each render derives from it    *)
(* (useMemo chains), the two passive effects (exposure sampling, explosion *)
(* cleanup timer), the interval timer and the event handlers.              *)
(*                                                                         *)
(* Numbers.  JavaScript numbers are modelled by exact fixed-point          *)
(* integers.  A radius is an integer count of 1/RScale km; a factor is an  *)
(* integer count of 1/RScale; times are integer milliseconds.  Rounding    *)
(* (Math.round, toFixed) is modelled by what it does to the exact value.   *)
(*                                                                         *)
(* The helpers imported from ../utils/impact are not part of the available *)
(* sources; they are modelled from their contracts in the specification    *)
(* document (marked "spec-modelled" below).                                *)
(***************************************************************************)
EXTENDS Integers, Sequences, FiniteSets, TLC

VARIABLES
    impact,               \* useState: {lat, lng}; ref models the object's identity
    diameterM,            \* useState
    speedKms,             \* useState
    angleDeg,             \* useState
    points,               \* useState: the exposure point set
    strategy,             \* useState: "none" | "deflection" | "evacuation"
    deltaVmm,             \* useState
    leadYears,            \* useState
    evacRadiusKm,         \* useState
    evacCoverage,         \* useState
    explosionType,        \* useState: "ground" | "airburst" | "water"
    explosionDiameterKm,  \* useState
    explosions,           \* useState: sequence of live explosion events
    scenarioA,            \* useState: snapshot or NullScenario
    scenarioB,            \* useState: snapshot or NullScenario
    now,                  \* Date.now(), milliseconds
    timers,               \* live setInterval timers: set of [id, due]
    exposureDeps,         \* deps seen by the last run of the exposure effect
    cleanupDeps,          \* deps seen by the last run of the cleanup effect
    cleanupTimer          \* the timer id the cleanup closure will clear (0: none)

vars == << impact, diameterM, speedKms, angleDeg, points, strategy, deltaVmm,
           leadYears, evacRadiusKm, evacCoverage, explosionType,
           explosionDiameterKm, explosions, scenarioA, scenarioB, now,
           timers, exposureDeps, cleanupDeps, cleanupTimer >>

scenarioVars == << diameterM, speedKms, angleDeg >>
mitigationVars == << strategy, deltaVmm, leadYears, evacRadiusKm, evacCoverage >>
explosionCtlVars == << explosionType, explosionDiameterKm >>
snapshotVars == << scenarioA, scenarioB >>
timerVars == << timers, cleanupTimer, cleanupDeps >>

(***************************************************************************)
(* Bounds of the model.                                                    *)
(***************************************************************************)
MaxLive == 2        \* most explosion events held at once
MaxTicks == 28      \* most clock advances of TimeStep milliseconds
NumSamples == 2     \* distinct outcomes of one random exposure sampling
MaxTriggerTicks == 1  \* clock advances while the trigger controls are exercised

(***************************************************************************)
(* Program constants.                                                      *)
(***************************************************************************)
TtlMs == 6500             \* ttlMs of every explosion event
SweepIntervalMs == 500    \* period of the cleanup setInterval
InfluenceFloorKm == 200   \* Math.max(200, lightRadiusKm)
RScale == 4000            \* fixed-point unit: 1 km = RScale, factor 1.0 = RScale
TimeStep == SweepIntervalMs \div 2

(***************************************************************************)
(* Arithmetic helpers.                                                     *)
(***************************************************************************)
Min(a, b) == IF a <= b THEN a ELSE b
Max(a, b) == IF a >= b THEN a ELSE b
Abs(a) == IF a < 0 THEN -a ELSE a

\* clamp(x, lo, hi) of ../utils/impact
clamp(x, lo, hi) == Max(lo, Min(hi, x))

RECURSIVE Gcd(_, _)
Gcd(a, b) == IF b = 0 THEN a ELSE Gcd(b, a % b)

\* floor(a * b / c) for a, b >= 0, c > 0, without leaving 32 bits
MulDiv(a, b, c) == (a \div c) * b + ((a % c) * b) \div c

\* Math.round(n / d) for n >= 0, d > 0: floor(n/d + 1/2)
MathRound(n, d) == (2 * n + d) \div (2 * d)

\* +(x).toFixed(1) of a value x given in 1/RScale units: Number.prototype.toFixed
\* rounds the magnitude to the nearest tenth, ties to the larger magnitude, and
\* puts the sign back.
ToFixed1_HalfUp(x) == ((2 * x * 10 + RScale) \div (2 * RScale)) * (RScale \div 10)
ToFixed1(x) ==
    LET n == (2 * Abs(x) * 10 + RScale) \div (2 * RScale)
    IN  (IF x < 0 THEN -1 ELSE 1) * n * (RScale \div 10)

RECURSIVE SumSeq(_)
SumSeq(s) == IF s = << >> THEN 0 ELSE Head(s) + SumSeq(Tail(s))

(***************************************************************************)
(* Input domains (the values the sliders, selectors and clicks deliver).   *)
(***************************************************************************)
Coordinates == { [lat |-> 40, lng |-> 29], [lat |-> 0, lng |-> 0] }
DiameterInputs == {200, 1500}
SpeedInputs == {19, 72}
AngleInputs == {45, 15}
Strategies == {"none", "deflection", "evacuation"}
DeltaVInputs == {0, 1, 2, 10}
LeadYearsInputs == {2, 10}
EvacRadiusInputs == {5, 30, 150}
EvacCoverageInputs == {0, 60, 100}
ExplosionTypes == {"ground", "airburst", "water"}
ExplosionDiameterInputs == {5, 50}

(***************************************************************************)
(* spec-modelled: impactModel of ../utils/impact.  Each radius is          *)
(* proportional to (diameter^3 * speed^2 * sin(angle))^(1/3), with fixed   *)
(* ratios severe < major < light and a small positive floor.               *)
(***************************************************************************)
SpeedTerm(v) == IF v = 19 THEN 712 ELSE 1731        \* 100 * v^(2/3)
AngleTerm(a) == IF a = 45 THEN 89 ELSE IF a = 15 THEN 64 ELSE 100  \* 100 * sin(a)^(1/3)
impactModel(d, v, a) ==
    LET severeKm == Max(1, (d * SpeedTerm(v) * AngleTerm(a)) \div 1267360)
    IN  [ severeRadiusKm |-> severeKm * RScale,
          majorRadiusKm  |-> (severeKm * 5 * RScale) \div 2,
          lightRadiusKm  |-> severeKm * 6 * RScale ]

(***************************************************************************)
(* spec-modelled: randomPointsAround of ../utils/impact.  A sample is a    *)
(* fixed number of weighted points scattered within the influence radius,  *)
(* heavier near the centre; the random outcome is the index f.             *)
(***************************************************************************)
SampleProfile(f) ==
    IF f % 2 = 1
    THEN << [frac |-> 40, weight |-> 8 + f], [frac |-> 20, weight |-> 6],
            [frac |-> 10, weight |-> 4], [frac |-> 4, weight |-> 2],
            [frac |-> 1, weight |-> 1] >>
    ELSE << [frac |-> 50, weight |-> 6 + f], [frac |-> 25, weight |-> 7],
            [frac |-> 20, weight |-> 5], [frac |-> 8, weight |-> 3],
            [frac |-> 2, weight |-> 1] >>

randomPointsAround(center, influenceKm, f) ==
    [ i \in 1..Len(SampleProfile(f)) |->
        [ lat |-> center.lat, lng |-> center.lng,
          distKm |-> (influenceKm \div RScale) \div SampleProfile(f)[i].frac,
          weight |-> SampleProfile(f)[i].weight ] ]

(***************************************************************************)
(* spec-modelled: estimatePopulation / estimateDeaths of ../utils/impact.  *)
(* Population is the weight inside the radius scaled to a population unit; *)
(* deaths are a fraction of it that grows with the radius (5% .. 60%).     *)
(***************************************************************************)
estimatePopulation(pts, radius) ==
    10 * SumSeq([ i \in 1..Len(pts) |->
                    IF pts[i].distKm * RScale <= radius THEN pts[i].weight ELSE 0 ])

estimateDeaths(pop, radius) ==
    MathRound(pop * clamp(radius \div RScale, 5, 60), 100)

(***************************************************************************)
(* Values derived on every render (the useMemo chain and the plain code of *)
(* the component body).  Every memo lists all the values it reads as       *)
(* dependencies, so each is a function of the current state.               *)
(***************************************************************************)
\* const baseR = useMemo(() => impactModel({diameterM, speedKms, angleDeg}), ...)
baseR == impactModel(diameterM, speedKms, angleDeg)

\* clamp((deltaVmm / 2) * (leadYears / 2), 0, 3), in 1/RScale
Effectiveness(dv, ly) == clamp((dv * ly * RScale) \div 4, 0, 3 * RScale)

\* 1 - Math.min(0.7, 0.18 * effectiveness), in 1/RScale
Factor(dv, ly) == RScale - Min((7 * RScale) \div 10, (18 * Effectiveness(dv, ly)) \div 100)

\* the body of the mitigatedR memo
MitigatedRadii_AlwaysDeflect(base, strat, dv, ly) ==
    [ severeRadiusKm |-> MulDiv(base.severeRadiusKm, Factor(dv, ly), RScale),
      majorRadiusKm  |-> MulDiv(base.majorRadiusKm, Factor(dv, ly), RScale),
      lightRadiusKm  |-> MulDiv(base.lightRadiusKm,
                                (85 * RScale) \div 100 + (15 * Factor(dv, ly)) \div 100,
                                RScale) ]
MitigatedRadii_NoCap(base, strat, dv, ly) ==
    IF strat # "deflection" THEN base
    ELSE LET f == RScale - (18 * ((dv * ly * RScale) \div 4)) \div 100
         IN  [ severeRadiusKm |-> MulDiv(base.severeRadiusKm, Max(0, f), RScale),
               majorRadiusKm  |-> MulDiv(base.majorRadiusKm, Max(0, f), RScale),
               lightRadiusKm  |-> MulDiv(base.lightRadiusKm,
                                         (85 * RScale) \div 100 + (15 * Max(0, f)) \div 100,
                                         RScale) ]
MitigatedRadii_SwappedBlend(base, strat, dv, ly) ==
    IF strat # "deflection" THEN base
    ELSE LET blend == (85 * RScale) \div 100 + (15 * Factor(dv, ly)) \div 100
         IN  [ severeRadiusKm |-> MulDiv(base.severeRadiusKm, blend, RScale),
               majorRadiusKm  |-> MulDiv(base.majorRadiusKm, blend, RScale),
               lightRadiusKm  |-> MulDiv(base.lightRadiusKm, Factor(dv, ly), RScale) ]
MitigatedRadii(base, strat, dv, ly) ==
    IF strat # "deflection" THEN base
    ELSE [ severeRadiusKm |-> MulDiv(base.severeRadiusKm, Factor(dv, ly), RScale),
           majorRadiusKm  |-> MulDiv(base.majorRadiusKm, Factor(dv, ly), RScale),
           lightRadiusKm  |-> MulDiv(base.lightRadiusKm,
                                     (85 * RScale) \div 100 + (15 * Factor(dv, ly)) \div 100,
                                     RScale) ]

mitigatedR == MitigatedRadii(baseR, strategy, deltaVmm, leadYears)

popBase == estimatePopulation(points.samples, baseR.severeRadiusKm)
deathsBase == estimateDeaths(popBase, baseR.severeRadiusKm)

\* severityOverlap = clamp(evacRadiusKm / baseR.severeRadiusKm, 0, 1) as a
\* reduced fraction num/den
SeverityOverlap(base, er) ==
    LET n == Max(0, er) * RScale
        d == base.severeRadiusKm
        g == Gcd(n, d)
    IN  IF n >= d THEN [num |-> 1, den |-> 1] ELSE [num |-> n \div g, den |-> d \div g]

\* Math.round(x * (1 - c * severityOverlap * coveredFrac)), c given in tenths
EvacRound_Floor(x, c10, base, er, ec) ==
    LET coveredFrac == clamp(ec, 0, 100)
        so == IF Max(0, er) * RScale >= base.severeRadiusKm
              THEN [num |-> 1, den |-> 1]
              ELSE [num |-> Max(0, er) * RScale, den |-> base.severeRadiusKm]
    IN  MulDiv(x, 1000 * (so.den \div Gcd(so.num, so.den))
                    - c10 * (so.num \div Gcd(so.num, so.den)) * coveredFrac,
               1000 * (so.den \div Gcd(so.num, so.den)))
EvacRound(x, c10, base, er, ec) ==
    LET coveredFrac == clamp(ec, 0, 100)
        so == SeverityOverlap(base, er)
    IN  MathRound(x * (1000 * so.den - c10 * so.num * coveredFrac), 1000 * so.den)

\* popMit / deathsMit: the two memos, then the evacuation branch
PopMit(pts, base, strat, dv, ly, er, ec) ==
    IF strat = "evacuation"
    THEN EvacRound(estimatePopulation(pts, base.severeRadiusKm), 3, base, er, ec)
    ELSE estimatePopulation(pts, MitigatedRadii(base, strat, dv, ly).severeRadiusKm)

DeathsMit_Grow(pts, base, strat, dv, ly, er, ec) ==
    LET mitR == MitigatedRadii(base, strat, dv, ly)
        pb == estimatePopulation(pts, base.severeRadiusKm)
        so == SeverityOverlap(base, er)
    IN  IF strat = "evacuation"
        THEN MathRound(estimateDeaths(pb, base.severeRadiusKm)
                         * (1000 * so.den + 7 * so.num * clamp(ec, 0, 100)),
                       1000 * so.den)
        ELSE estimateDeaths(estimatePopulation(pts, mitR.severeRadiusKm),
                            mitR.severeRadiusKm)
DeathsMit(pts, base, strat, dv, ly, er, ec) ==
    LET mitR == MitigatedRadii(base, strat, dv, ly)
        pb == estimatePopulation(pts, base.severeRadiusKm)
    IN  IF strat = "evacuation"
        THEN EvacRound(estimateDeaths(pb, base.severeRadiusKm), 7, base, er, ec)
        ELSE estimateDeaths(estimatePopulation(pts, mitR.severeRadiusKm),
                            mitR.severeRadiusKm)

popMit == PopMit(points.samples, baseR, strategy, deltaVmm, leadYears,
                 evacRadiusKm, evacCoverage)
deathsMit == DeathsMit(points.samples, baseR, strategy, deltaVmm, leadYears,
                       evacRadiusKm, evacCoverage)

kpisBase ==
    [ pop |-> popBase, deaths |-> deathsBase, severe |-> baseR.severeRadiusKm,
      major |-> baseR.majorRadiusKm, light |-> baseR.lightRadiusKm ]
kpisMit ==
    [ pop |-> popMit, deaths |-> deathsMit, severe |-> mitigatedR.severeRadiusKm,
      major |-> mitigatedR.majorRadiusKm, light |-> mitigatedR.lightRadiusKm ]

(***************************************************************************)
(* Values of the state.                                                    *)
(***************************************************************************)
NullScenario == [label |-> "null"]      \* useState(null)
NoCenter == [lat |-> 999, lng |-> 999]
EmptyPoints == [center |-> NoCenter, influence |-> 0, samples |-> << >>]
NoDeps == [ref |-> -1, light |-> -1]    \* before the effect has run once

EXPLOSION_STYLE(type) ==
    CASE type = "airburst" -> [colorShock |-> "#fff176", colorThermal |-> "#ffffff", speed |-> 30]
      [] type = "water"    -> [colorShock |-> "#4fd1c5", colorThermal |-> "#60a5fa", speed |-> 15]
      [] OTHER             -> [colorShock |-> "#ff3b2f", colorThermal |-> "#ffa500", speed |-> 20]

Init ==
    /\ impact = [lat |-> 40, lng |-> 29, ref |-> 0]
    /\ diameterM = 200
    /\ speedKms = 19
    /\ angleDeg = 45
    /\ points = EmptyPoints
    /\ strategy = "none"
    /\ deltaVmm = 2
    /\ leadYears = 2
    /\ evacRadiusKm = 30
    /\ evacCoverage = 60
    /\ explosionType = "ground"
    /\ explosionDiameterKm = 50
    /\ explosions = << >>
    /\ scenarioA = NullScenario
    /\ scenarioB = NullScenario
    /\ now = 0
    /\ timers = {}
    /\ exposureDeps = NoDeps
    /\ cleanupDeps = -1
    /\ cleanupTimer = 0

(***************************************************************************)
(* Passive effects.  After a commit React runs every effect one of whose   *)
(* dependencies differs (Object.is) from the value it had at the effect's  *)
(* previous run; they run before the next event is handled.  A new impact  *)
(* object differs from the previous one whatever it holds: ref flips.      *)
(***************************************************************************)
ExposureDepsNow == [ref |-> impact.ref, light |-> mitigatedR.lightRadiusKm]
CleanupDepsNow == Len(explosions)
EffectsPending == exposureDeps # ExposureDepsNow \/ cleanupDeps # CleanupDepsNow

\* const influence = Math.max(200, mitigatedR.lightRadiusKm)
influence == Max(InfluenceFloorKm * RScale, mitigatedR.lightRadiusKm)

\* useEffect(..., [impact, mitigatedR.lightRadiusKm]): the new value of points
ExposureEffect(f) ==
    IF exposureDeps # ExposureDepsNow
    THEN [ center |-> [lat |-> impact.lat, lng |-> impact.lng],
           influence |-> influence,
           samples |-> randomPointsAround(impact, influence, f) ]
    ELSE points

\* setInterval returns a handle no live timer has
NewTimerId == CHOOSE i \in 1..(Cardinality(timers) + 1) : \A t \in timers : t.id # i

\* useEffect(..., [explosions.length]): the previous run's cleanup
\* (clearInterval(t)), then the body; the new set of timers
CleanupEffectTimers_NoClear ==
    IF cleanupDeps = CleanupDepsNow THEN timers
    ELSE IF Len(explosions) = 0 THEN timers
    ELSE timers \cup { [id |-> NewTimerId, due |-> now + SweepIntervalMs] }
CleanupEffectTimers ==
    IF cleanupDeps = CleanupDepsNow THEN timers
    ELSE LET cleared == { t \in timers : t.id # cleanupTimer }
         IN  IF Len(explosions) = 0 THEN cleared
             ELSE cleared \cup { [id |-> NewTimerId, due |-> now + SweepIntervalMs] }

RunEffects ==
    /\ EffectsPending
    /\ \E f \in 1..NumSamples : points' = ExposureEffect(f)
    /\ exposureDeps' = ExposureDepsNow
    /\ timers' = CleanupEffectTimers
    /\ cleanupTimer' = IF cleanupDeps = CleanupDepsNow THEN cleanupTimer
                       ELSE IF Len(explosions) = 0 THEN 0 ELSE NewTimerId
    /\ cleanupDeps' = CleanupDepsNow
    /\ UNCHANGED << impact, scenarioVars, mitigationVars, explosionCtlVars,
                    explosions, snapshotVars, now >>

(***************************************************************************)
(* Explosion events.                                                       *)
(***************************************************************************)
\* the random part of `${now}-${Math.random()...}`: differs from every live id
NewExplosionId == CHOOSE i \in 1..(Len(explosions) + 1) :
                      \A k \in 1..Len(explosions) : explosions[k].id # i

NewExplosion_GroundStyle ==
    [ id |-> NewExplosionId,
      lat |-> impact.lat,
      lng |-> impact.lng,
      radiusKm |-> Max(1 * RScale, (explosionDiameterKm * RScale) \div 2),
      type |-> explosionType,
      startedAt |-> now,
      style |-> EXPLOSION_STYLE("ground"),
      ttlMs |-> TtlMs ]
NewExplosion ==
    [ id |-> NewExplosionId,
      lat |-> impact.lat,
      lng |-> impact.lng,
      radiusKm |-> Max(1 * RScale, (explosionDiameterKm * RScale) \div 2),
      type |-> explosionType,
      startedAt |-> now,
      style |-> EXPLOSION_STYLE(explosionType),
      ttlMs |-> TtlMs ]

\* setExplosions((prev) => [...prev, newExpl])
triggerExplosion ==
    /\ ~EffectsPending
    /\ Len(explosions) < MaxLive
    /\ explosions' = Append(explosions, NewExplosion)
    /\ UNCHANGED << impact, scenarioVars, points, mitigationVars, explosionCtlVars,
                    snapshotVars, now, timerVars, exposureDeps >>

\* prev.filter((e) => now - e.startedAt < e.ttlMs)
Unexpired_Inclusive(e) == now - e.startedAt <= e.ttlMs
Unexpired(e) == now - e.startedAt < e.ttlMs

\* one firing of the interval timer t
IntervalTick(t) ==
    /\ ~EffectsPending
    /\ t.due <= now
    /\ explosions' = SelectSeq(explosions, Unexpired)
    /\ timers' = (timers \ {t}) \cup { [t EXCEPT !.due = t.due + SweepIntervalMs] }
    /\ UNCHANGED << impact, scenarioVars, points, mitigationVars, explosionCtlVars,
                    snapshotVars, now, cleanupTimer, cleanupDeps, exposureDeps >>

\* the clock moves on; a timer that is due fires first
AdvanceTimeUpTo(ticks) ==
    /\ ~EffectsPending
    /\ \A t \in timers : t.due > now
    /\ now < ticks * TimeStep
    /\ now' = now + TimeStep
    /\ UNCHANGED << impact, scenarioVars, points, mitigationVars, explosionCtlVars,
                    explosions, snapshotVars, timerVars, exposureDeps >>

AdvanceTime == AdvanceTimeUpTo(MaxTicks)

Next ==
    \/ RunEffects
    \/ triggerExplosion
    \/ \E t \in timers : IntervalTick(t)
    \/ AdvanceTime

Spec == Init /\ [][Next]_vars

(***************************************************************************)
(* Claims about the explosion event manager (specification Spec).          *)
(***************************************************************************)
\* a step in which an interval timer fired: its due time moved one period on
SweepFired ==
    \E t \in timers :
        /\ t \notin timers'
        /\ [t EXCEPT !.due = t.due + SweepIntervalMs] \in timers'

IsLive(e, live) == \E k \in 1..Len(live) : live[k] = e

\* C1: a sweep executed at time now removes exactly the events created at t0
\* with ttl T for which now >= t0 + T: every expired event is absent after
\* the sweep and every unexpired event is still present, unchanged.
C1_SweepRemovesExactlyExpired ==
    [][ SweepFired =>
          /\ \A k \in 1..Len(explosions) :
                LET e == explosions[k]
                IN  /\ e.ttlMs = TtlMs
                    /\ (now >= e.startedAt + e.ttlMs) => ~IsLive(e, explosions')
                    /\ (now < e.startedAt + e.ttlMs) => IsLive(e, explosions')
          /\ \A k \in 1..Len(explosions') : IsLive(explosions'[k], explosions) ]_vars

\* a sweep has just dropped an expired event and kept a younger one
C1_Witness ==
    /\ Len(explosions) = 1
    /\ cleanupDeps = 2
    /\ now >= TtlMs
    /\ now - explosions[1].startedAt < explosions[1].ttlMs

\* C2: at most one interval timer exists at any time; once the effects of a
\* commit have run, a timer is live exactly when the live set is non-empty;
\* and no sweep tick ever fires on an empty live set.
C2_TimerRunsExactlyWhileLive ==
    /\ [](Cardinality(timers) <= 1)
    /\ [](~EffectsPending => (timers # {} <=> explosions # << >>))
    /\ [][SweepFired => explosions # << >>]_vars

\* the last event has expired and been swept, and the timer is cancelled
C2_Witness ==
    /\ explosions = << >>
    /\ timers = {}
    /\ ~EffectsPending
    /\ now >= TtlMs

(***************************************************************************)
(* Handlers of the scenario and mitigation controls.  A setter called with *)
(* the value the state already holds changes nothing (React bails out).    *)
(***************************************************************************)
SetDiameterM(inputs) ==
    /\ ~EffectsPending
    /\ \E v \in inputs : v # diameterM /\ diameterM' = v
    /\ UNCHANGED << impact, speedKms, angleDeg, points, mitigationVars, explosionCtlVars,
                    explosions, snapshotVars, now, timerVars, exposureDeps >>

SetSpeedKms(inputs) ==
    /\ ~EffectsPending
    /\ \E v \in inputs : v # speedKms /\ speedKms' = v
    /\ UNCHANGED << impact, diameterM, angleDeg, points, mitigationVars, explosionCtlVars,
                    explosions, snapshotVars, now, timerVars, exposureDeps >>

SetAngleDeg(inputs) ==
    /\ ~EffectsPending
    /\ \E v \in inputs : v # angleDeg /\ angleDeg' = v
    /\ UNCHANGED << impact, diameterM, speedKms, points, mitigationVars, explosionCtlVars,
                    explosions, snapshotVars, now, timerVars, exposureDeps >>

SetStrategy(inputs) ==
    /\ ~EffectsPending
    /\ \E v \in inputs : v # strategy /\ strategy' = v
    /\ UNCHANGED << impact, scenarioVars, points, deltaVmm, leadYears, evacRadiusKm,
                    evacCoverage, explosionCtlVars, explosions, snapshotVars, now, timerVars, exposureDeps >>

SetDeltaVmm(inputs) ==
    /\ ~EffectsPending
    /\ \E v \in inputs : v # deltaVmm /\ deltaVmm' = v
    /\ UNCHANGED << impact, scenarioVars, points, strategy, leadYears, evacRadiusKm,
                    evacCoverage, explosionCtlVars, explosions, snapshotVars, now, timerVars, exposureDeps >>

SetLeadYears(inputs) ==
    /\ ~EffectsPending
    /\ \E v \in inputs : v # leadYears /\ leadYears' = v
    /\ UNCHANGED << impact, scenarioVars, points, strategy, deltaVmm, evacRadiusKm,
                    evacCoverage, explosionCtlVars, explosions, snapshotVars, now, timerVars, exposureDeps >>

SetEvacRadiusKm(inputs) ==
    /\ ~EffectsPending
    /\ \E v \in inputs : v # evacRadiusKm /\ evacRadiusKm' = v
    /\ UNCHANGED << impact, scenarioVars, points, strategy, deltaVmm, leadYears,
                    evacCoverage, explosionCtlVars, explosions, snapshotVars, now, timerVars, exposureDeps >>

SetEvacCoverage(inputs) ==
    /\ ~EffectsPending
    /\ \E v \in inputs : v # evacCoverage /\ evacCoverage' = v
    /\ UNCHANGED << impact, scenarioVars, points, strategy, deltaVmm, leadYears,
                    evacRadiusKm, explosionCtlVars, explosions, snapshotVars, now, timerVars, exposureDeps >>

\* setImpact({ lat, lng }): always a new object
handleGlobeClick(inputs) ==
    /\ ~EffectsPending
    /\ \E pos \in inputs :
          impact' = [lat |-> pos.lat, lng |-> pos.lng, ref |-> 1 - impact.ref]
    /\ UNCHANGED << scenarioVars, points, mitigationVars, explosionCtlVars,
                    explosions, snapshotVars, now, timerVars, exposureDeps >>

NextScenario ==
    \/ RunEffects
    \/ handleGlobeClick(Coordinates)
    \/ SetDiameterM(DiameterInputs)
    \/ SetSpeedKms(SpeedInputs)
    \/ SetAngleDeg(AngleInputs)
    \/ SetStrategy(Strategies)
    \/ SetDeltaVmm(DeltaVInputs)
    \/ SetLeadYears(LeadYearsInputs)
    \/ SetEvacRadiusKm(EvacRadiusInputs)
    \/ SetEvacCoverage(EvacCoverageInputs)

SpecScenario == Init /\ [][NextScenario]_vars

C4_FactorPerMille ==
    LET q == deltaVmm * leadYears          \* four times (dv/2) * (ly/2)
        eff4 == IF q < 0 THEN 0 ELSE IF q > 12 THEN 12 ELSE q
    IN  1000 - (IF 45 * eff4 > 700 THEN 700 ELSE 45 * eff4)

\* C4: under deflection the mitigated severe and major radii are the base
\* radii times factor = 1 - min(0.7, 0.18 * effectiveness), are at most the
\* base radii and at least 0.3 times the base radii.
C4_DeflectionBound ==
    strategy = "deflection" =>
        /\ deltaVmm >= 0 /\ leadYears >= 0
        /\ mitigatedR.severeRadiusKm * 1000 = baseR.severeRadiusKm * C4_FactorPerMille
        /\ mitigatedR.majorRadiusKm * 1000 = baseR.majorRadiusKm * C4_FactorPerMille
        /\ mitigatedR.severeRadiusKm <= baseR.severeRadiusKm
        /\ mitigatedR.majorRadiusKm <= baseR.majorRadiusKm
        /\ 10 * mitigatedR.severeRadiusKm >= 3 * baseR.severeRadiusKm
        /\ 10 * mitigatedR.majorRadiusKm >= 3 * baseR.majorRadiusKm

\* deflection with inputs so large that the effectiveness clamp binds
C4_Witness ==
    /\ strategy = "deflection"
    /\ deltaVmm * leadYears > 12
    /\ mitigatedR.severeRadiusKm < baseR.severeRadiusKm

\* m is Math.round(x * (1 - c10/10 * overlap * covered)) for the claim's
\* overlap = clamp(evacRadiusKm / severe, 0, 1), covered = clamp(pct/100, 0, 1):
\* m - 1/2 <= value < m + 1/2, stated on the cross-multiplied integers.
C5_IsRounded(m, x, c10, er, ec) ==
    LET sevKm == baseR.severeRadiusKm \div RScale
        on == IF er >= sevKm THEN 1 ELSE IF er < 0 THEN 0 ELSE er
        od == IF er >= sevKm THEN 1 ELSE sevKm
        cov == IF ec > 100 THEN 100 ELSE IF ec < 0 THEN 0 ELSE ec
        num == x * (1000 * od - c10 * on * cov)
        den == 1000 * od
    IN  /\ baseR.severeRadiusKm = sevKm * RScale
        /\ (2 * m - 1) * den <= 2 * num
        /\ 2 * num < (2 * m + 1) * den

\* C5: under evacuation the radii are the base radii, the mitigated deaths and
\* population are the rounded products of the claim, and with zero coverage
\* or a zero evacuation radius the mitigated outcome is the base outcome.
C5_Evacuation ==
    /\ strategy = "evacuation" =>
          /\ mitigatedR = baseR
          /\ C5_IsRounded(deathsMit, deathsBase, 7, evacRadiusKm, evacCoverage)
          /\ C5_IsRounded(popMit, popBase, 3, evacRadiusKm, evacCoverage)
          /\ evacCoverage = 0 => kpisMit = kpisBase
    /\ \A ec \in EvacCoverageInputs :
          /\ DeathsMit(points.samples, baseR, "evacuation", deltaVmm, leadYears, 0, ec)
               = deathsBase
          /\ PopMit(points.samples, baseR, "evacuation", deltaVmm, leadYears, 0, ec)
               = popBase
          /\ MitigatedRadii(baseR, "evacuation", deltaVmm, leadYears) = baseR

\* evacuation in force with partial overlap and coverage, and deaths avoided
C5_Witness ==
    /\ strategy = "evacuation"
    /\ evacRadiusKm * RScale < baseR.severeRadiusKm
    /\ evacCoverage = 60
    /\ 0 < deathsMit
    /\ deathsMit < deathsBase

\* C6: with strategy none the mitigated outcome is the base outcome, whatever
\* the deflection and evacuation parameters hold.
C6_NoneIsIdentity ==
    strategy = "none" => kpisMit = kpisBase

\* strategy none with non-default deflection and evacuation parameters
C6_Witness ==
    /\ strategy = "none"
    /\ deltaVmm = 10 /\ leadYears = 10
    /\ evacCoverage = 100 /\ evacRadiusKm = 150
    /\ deathsBase > 0

\* C10: the exposure point set is replaced only when the centre or the
\* influence radius it is generated for differs from that of the set replaced.
C10_RegeneratedOnlyOnInputChange ==
    [][ (points' # points /\ points # EmptyPoints) =>
            \/ points'.center # points.center
            \/ points'.influence # points.influence ]_vars

(***************************************************************************)
(* Scenario snapshots and the comparison delta.                            *)
(***************************************************************************)
ASTEROID_NAME == "Impactor-2025"

\* const snapshotScenario = (label) => ({ label, asteroidName, impact, ... })
snapshotScenario_StaleKpis(label) ==
    [ label |-> label,
      asteroidName |-> ASTEROID_NAME,
      impact |-> [lat |-> impact.lat, lng |-> impact.lng],
      diameterM |-> diameterM, speedKms |-> speedKms, angleDeg |-> angleDeg,
      strategy |-> strategy, deltaVmm |-> deltaVmm, leadYears |-> leadYears,
      evacRadiusKm |-> evacRadiusKm, evacCoverage |-> evacCoverage,
      kpis |-> [base |-> kpisBase, mit |-> kpisBase] ]
snapshotScenario(label) ==
    [ label |-> label,
      asteroidName |-> ASTEROID_NAME,
      impact |-> [lat |-> impact.lat, lng |-> impact.lng],
      diameterM |-> diameterM, speedKms |-> speedKms, angleDeg |-> angleDeg,
      strategy |-> strategy, deltaVmm |-> deltaVmm, leadYears |-> leadYears,
      evacRadiusKm |-> evacRadiusKm, evacCoverage |-> evacCoverage,
      kpis |-> [base |-> kpisBase, mit |-> kpisMit] ]

\* const saveScenarioA = () => setScenarioA(snapshotScenario("A"))
saveScenarioA ==
    /\ ~EffectsPending
    /\ scenarioA' = snapshotScenario("A")
    /\ UNCHANGED << impact, scenarioVars, points, mitigationVars, explosionCtlVars,
                    explosions, scenarioB, now, timerVars, exposureDeps >>

\* const saveScenarioB = () => setScenarioB(snapshotScenario("B"))
saveScenarioB_WritesA ==
    /\ ~EffectsPending
    /\ scenarioA' = snapshotScenario("B")
    /\ scenarioB' = snapshotScenario("B")
    /\ UNCHANGED << impact, scenarioVars, points, mitigationVars, explosionCtlVars,
                    explosions, now, timerVars, exposureDeps >>
saveScenarioB ==
    /\ ~EffectsPending
    /\ scenarioB' = snapshotScenario("B")
    /\ UNCHANGED << impact, scenarioVars, points, mitigationVars, explosionCtlVars,
                    explosions, scenarioA, now, timerVars, exposureDeps >>

NullDelta == [absent |-> TRUE]          \* the memo's null

\* the body of the delta memo, for slot values a and b
Delta_Swapped(sa, sb) ==
    IF sa = NullScenario \/ sb = NullScenario THEN NullDelta
    ELSE LET a == sa.kpis.mit
             b == sb.kpis.mit
         IN  [ pop |-> a.pop - b.pop,
               deaths |-> a.deaths - b.deaths,
               severe |-> ToFixed1(a.severe - b.severe),
               major |-> ToFixed1(a.major - b.major),
               light |-> ToFixed1(a.light - b.light) ]
Delta(sa, sb) ==
    IF sa = NullScenario \/ sb = NullScenario THEN NullDelta
    ELSE LET a == sa.kpis.mit
             b == sb.kpis.mit
         IN  [ pop |-> b.pop - a.pop,
               deaths |-> b.deaths - a.deaths,
               severe |-> ToFixed1(b.severe - a.severe),
               major |-> ToFixed1(b.major - a.major),
               light |-> ToFixed1(b.light - a.light) ]

\* const delta = useMemo(..., [scenarioA, scenarioB])
delta == Delta(scenarioA, scenarioB)

NextCompare ==
    \/ RunEffects
    \/ SetDiameterM(DiameterInputs)
    \/ SetStrategy({"none", "deflection"})
    \/ SetDeltaVmm({1, 2})
    \/ handleGlobeClick({[lat |-> 40, lng |-> 29]})
    \/ triggerExplosion
    \/ saveScenarioA
    \/ saveScenarioB

SpecCompare == Init /\ [][NextCompare]_vars

(***************************************************************************)
(* Claims about snapshots and the comparison (specification SpecCompare).  *)
(***************************************************************************)
Tenth == RScale \div 10

\* the exact mitigated difference b - a of two snapshots, field by field
ExactDifference(sa, sb) ==
    [ pop |-> sb.kpis.mit.pop - sa.kpis.mit.pop,
      deaths |-> sb.kpis.mit.deaths - sa.kpis.mit.deaths,
      severe |-> sb.kpis.mit.severe - sa.kpis.mit.severe,
      major |-> sb.kpis.mit.major - sa.kpis.mit.major,
      light |-> sb.kpis.mit.light - sa.kpis.mit.light ]

\* r is x rounded to one decimal: a whole number of tenths nearest to x
IsRoundedToTenth(r, x) == r % Tenth = 0 /\ 2 * Abs(r - x) <= Tenth

\* C7: the delta with the two stored snapshots in slots (A, B) is the
\* field-wise negation of the delta with them in slots (B, A).
C7_DeltaAntiSymmetric ==
    (scenarioA # NullScenario /\ scenarioB # NullScenario) =>
        LET ab == Delta(scenarioA, scenarioB)
            ba == Delta(scenarioB, scenarioA)
        IN  /\ ab.pop = -ba.pop
            /\ ab.deaths = -ba.deaths
            /\ ab.severe = -ba.severe
            /\ ab.major = -ba.major
            /\ ab.light = -ba.light

\* two different snapshots whose major radii differ by an odd number of
\* twentieths of a km, so that the rounding to one decimal meets a tie
C7_Witness ==
    /\ scenarioA # NullScenario /\ scenarioB # NullScenario
    /\ delta.deaths # 0
    /\ Abs(scenarioB.kpis.mit.major - scenarioA.kpis.mit.major) % Tenth = Tenth \div 2

\* C8 as stated: the delta is present exactly when both slots are filled and
\* then equals B.mitigated - A.mitigated in all five fields.
C8_DeltaIsExactDifference ==
    /\ delta = NullDelta <=> (scenarioA = NullScenario \/ scenarioB = NullScenario)
    /\ delta # NullDelta => delta = ExactDifference(scenarioA, scenarioB)

\* C8 amended: the delta is present exactly when both slots are filled; then
\* its population and deaths are B.mitigated - A.mitigated of the stored
\* snapshots and its three radius fields are those differences rounded to one
\* decimal.
C8_DeltaPresentIffBothSlots ==
    /\ delta = NullDelta <=> (scenarioA = NullScenario \/ scenarioB = NullScenario)
    /\ delta # NullDelta =>
          LET d == ExactDifference(scenarioA, scenarioB)
          IN  /\ delta.pop = d.pop
              /\ delta.deaths = d.deaths
              /\ IsRoundedToTenth(delta.severe, d.severe)
              /\ IsRoundedToTenth(delta.major, d.major)
              /\ IsRoundedToTenth(delta.light, d.light)

\* both slots filled after several saves, with B's outcome below A's
C8_Witness ==
    /\ scenarioA # NullScenario /\ scenarioB # NullScenario
    /\ delta # NullDelta
    /\ delta.deaths < 0
    /\ delta.severe < 0

\* what the claim says a save under the label records, read from the state
C9_Capture(label) ==
    [ label |-> label,
      params |-> << impact.lat, impact.lng, diameterM, speedKms, angleDeg >>,
      mitigation |-> << strategy, deltaVmm, leadYears, evacRadiusKm, evacCoverage >>,
      base |-> << popBase, deathsBase, baseR >>,
      mitigated |-> << popMit, deathsMit, mitigatedR >> ]

C9_Content(s) ==
    [ label |-> s.label,
      params |-> << s.impact.lat, s.impact.lng, s.diameterM, s.speedKms, s.angleDeg >>,
      mitigation |-> << s.strategy, s.deltaVmm, s.leadYears, s.evacRadiusKm, s.evacCoverage >>,
      base |-> << s.kpis.base.pop, s.kpis.base.deaths,
                  [ severeRadiusKm |-> s.kpis.base.severe,
                    majorRadiusKm |-> s.kpis.base.major,
                    lightRadiusKm |-> s.kpis.base.light ] >>,
      mitigated |-> << s.kpis.mit.pop, s.kpis.mit.deaths,
                       [ severeRadiusKm |-> s.kpis.mit.severe,
                         majorRadiusKm |-> s.kpis.mit.major,
                         lightRadiusKm |-> s.kpis.mit.light ] >> ]

\* C9: a slot changes only in a step that changes nothing but that slot and
\* leaves in it the record of the state at that moment under that label; so
\* a parameter or mitigation change, an exposure regeneration or an
\* explosion trigger leaves both slots as they are.
C9_SlotsChangeOnlyBySave ==
    [][ /\ scenarioA' # scenarioA =>
              /\ C9_Content(scenarioA') = C9_Capture("A")
              /\ UNCHANGED << impact, scenarioVars, points, mitigationVars,
                              explosionCtlVars, explosions, scenarioB, now,
                              timerVars, exposureDeps >>
        /\ scenarioB' # scenarioB =>
              /\ C9_Content(scenarioB') = C9_Capture("B")
              /\ UNCHANGED << impact, scenarioVars, points, mitigationVars,
                              explosionCtlVars, explosions, scenarioA, now,
                              timerVars, exposureDeps >> ]_vars

\* slot A still holds what was saved although the diameter, the strategy, the
\* exposure set's outcome and the live explosions have changed since
C9_Witness ==
    /\ scenarioA # NullScenario /\ scenarioB # NullScenario
    /\ scenarioA.diameterM # diameterM
    /\ scenarioA.strategy # strategy
    /\ scenarioA.kpis.base.pop # popBase
    /\ scenarioA.kpis.mit # kpisMit
    /\ scenarioB.kpis.mit # scenarioA.kpis.mit
    /\ Len(explosions) > 0

(***************************************************************************)
(* The trigger controls: the kind selector, the explosion diameter slider, *)
(* the "Trigger Explosion" button and the "Start Simulation" button.       *)
(***************************************************************************)
SetExplosionType(inputs) ==
    /\ ~EffectsPending
    /\ \E v \in inputs : v # explosionType /\ explosionType' = v
    /\ UNCHANGED << impact, scenarioVars, points, mitigationVars, explosionDiameterKm,
                    explosions, snapshotVars, now, timerVars, exposureDeps >>

SetExplosionDiameterKm(inputs) ==
    /\ ~EffectsPending
    /\ \E v \in inputs : v # explosionDiameterKm /\ explosionDiameterKm' = v
    /\ UNCHANGED << impact, scenarioVars, points, mitigationVars, explosionType,
                    explosions, snapshotVars, now, timerVars, exposureDeps >>

\* ASTEROID_PRESETS[ASTEROID_NAME]: ../utils/presets is not among the sources,
\* so the entry may be missing (undefined) or hold a preset
NoPreset == [label |-> "undefined"]
PresetChoices == { NoPreset, [diameterM |-> 200, speedKms |-> 19, angleDeg |-> 15] }

\* a click away from the initial impact point
ClickCoordinates == { [lat |-> 0, lng |-> 0] }

\* onStartSimulation: the setters and the setExplosions of triggerExplosion are
\* one batched update; triggerExplosion reads the values of the current render
onStartSimulation ==
    /\ ~EffectsPending
    /\ Len(explosions) < MaxLive
    /\ \E preset \in PresetChoices :
          IF preset # NoPreset
          THEN /\ diameterM' = preset.diameterM
               /\ speedKms' = preset.speedKms
               /\ angleDeg' = preset.angleDeg
          ELSE UNCHANGED scenarioVars
    /\ explosions' = Append(explosions, NewExplosion)
    /\ UNCHANGED << impact, points, mitigationVars, explosionCtlVars,
                    snapshotVars, now, timerVars, exposureDeps >>

\* the clock stops within the first period of the interval timer: no tick
NextTrigger ==
    \/ RunEffects
    \/ SetExplosionType(ExplosionTypes)
    \/ SetExplosionDiameterKm(ExplosionDiameterInputs)
    \/ handleGlobeClick(ClickCoordinates)
    \/ triggerExplosion
    \/ onStartSimulation
    \/ AdvanceTimeUpTo(MaxTriggerTicks)

SpecTrigger == Init /\ [][NextTrigger]_vars

(***************************************************************************)
(* Claims about the trigger (specification SpecTrigger).                   *)
(***************************************************************************)
\* a step in which the live set grew: only a trigger appends
Triggered == Len(explosions') > Len(explosions)

\* the style the claim gives each kind: its pair of colours and its speed
C11_StyleOfKind(kind) ==
    IF kind = "ground" THEN <<"#ff3b2f", "#ffa500", 20>>
    ELSE IF kind = "airburst" THEN <<"#fff176", "#ffffff", 30>>
    ELSE <<"#4fd1c5", "#60a5fa", 15>>

\* C11: each trigger appends exactly one new event to the live set with
\* radiusKm = max(1, diameterKm/2), the currently selected kind (ground,
\* airburst or water) with that kind's style, the current impact coordinate,
\* createdAt = now and ttl = 6500 ms, and leaves every already-live event
\* (its fields and its own expiry time) unchanged.
C11_TriggerAppendsOne ==
    [][ Triggered =>
          LET e == explosions'[Len(explosions')]
          IN  /\ Len(explosions') = Len(explosions) + 1
              /\ \A k \in 1..Len(explosions) : explosions'[k] = explosions[k]
              /\ \A k \in 1..Len(explosions) : explosions[k].id # e.id
              /\ 2 * e.radiusKm = Max(2 * RScale, explosionDiameterKm * RScale)
              /\ e.type = explosionType
              /\ e.type \in {"ground", "airburst", "water"}
              /\ <<e.style.colorShock, e.style.colorThermal, e.style.speed>>
                    = C11_StyleOfKind(e.type)
              /\ e.lat = impact.lat /\ e.lng = impact.lng
              /\ e.startedAt = now
              /\ e.ttlMs = 6500 ]_vars

\* a water event at a second coordinate has been appended, later than and next
\* to a live event of another kind, diameter and place
C11_Witness ==
    /\ Len(explosions) = 2
    /\ explosions[2].type = "water"
    /\ explosions[1].type # "water"
    /\ explosions[1].startedAt < explosions[2].startedAt
    /\ explosions[1].lat # explosions[2].lat
    /\ explosions[1].radiusKm # explosions[2].radiusKm
\* C12: the explosion manager guards against unbounded growth of the live
\* set: when triggers occur faster than events expire, the number of live
\* events stays below a fixed bound (by capping or coalescing) in every
\* reachable state.  The program states no bound of its own, so the bound
\* tried is the size up to which the model follows the program: a cap or a
\* coalescing step below it would keep the live set smaller than MaxLive.
C12_LiveSetBounded == Len(explosions) < MaxLive
(***************************************************************************)
(* Claims about the ordering of the radii (specification SpecScenario).    *)
(***************************************************************************)
\* the DamageRadii invariant: 0 < severe <= major <= light
Ordered(r) ==
    /\ 0 < r.severeRadiusKm
    /\ r.severeRadiusKm <= r.majorRadiusKm
    /\ r.majorRadiusKm <= r.lightRadiusKm

\* base radii tried beyond those of the current scenario: whole kilometres,
\* equal radii and far apart radii included
C13_RadiiKm == {1, 2, 90}
C13_BaseRadii ==
    [ severeRadiusKm : { k * RScale : k \in C13_RadiiKm },
      majorRadiusKm  : { k * RScale : k \in C13_RadiiKm },
      lightRadiusKm  : { k * RScale : k \in C13_RadiiKm } ]

\* C13: the DamageRadii ordering holds for the mitigated radii in every
\* mode: whenever the base radii satisfy 0 < severe <= major <= light, the
\* mitigated radii also satisfy 0 < severe <= major <= light, in particular
\* under deflection where severe and major scale by factor and light scales
\* by 0.85 + 0.15*factor, for every deltaVmm, leadYears >= 0.
C13_MitigatedOrdered ==
    /\ deltaVmm >= 0 /\ leadYears >= 0
    /\ Ordered(baseR) => Ordered(mitigatedR)
    /\ \A base \in C13_BaseRadii :
          Ordered(base) => Ordered(MitigatedRadii(base, strategy, deltaVmm, leadYears))

\* deflection at the largest effectiveness (3, factor 0.46): the scenario's
\* radii have shrunk and are still ordered, and equal base radii have come apart
C13_Witness ==
    /\ strategy = "deflection"
    /\ deltaVmm * leadYears > 12
    /\ Factor(deltaVmm, leadYears) = (46 * RScale) \div 100
    /\ Ordered(baseR)
    /\ mitigatedR.severeRadiusKm < baseR.severeRadiusKm
    /\ mitigatedR.majorRadiusKm < mitigatedR.lightRadiusKm
    /\ \E base \in C13_BaseRadii :
          /\ base.severeRadiusKm = base.lightRadiusKm
          /\ base.majorRadiusKm = base.lightRadiusKm
          /\ MitigatedRadii(base, strategy, deltaVmm, leadYears).majorRadiusKm
                < MitigatedRadii(base, strategy, deltaVmm, leadYears).lightRadiusKm
(***************************************************************************)
(* The sweep under sustained triggering.  Two representations keep the     *)
(* state finite without cutting a run short:                               *)
(*  - the clock is relative.  Date.now() enters the program only through   *)
(*    the differences now - e.startedAt and the delay of setInterval, so   *)
(*    the passing of TimeStep milliseconds moves every startedAt and every *)
(*    due time back instead of moving now forward; an age past ttlMs is    *)
(*    kept at ttlMs (the filter drops every such event alike);             *)
(*  - explosions holds the events the model follows, at most MaxLive of    *)
(*    the live ones.  A trigger beyond that appends in the program as      *)
(*    always; its event is not stored, and the change of explosions.length *)
(*    it causes is recorded against the stored events.  The stored events  *)
(*    live exactly as in the program: every trigger re-creates the timer,  *)
(*    and a sweep that removes an event the model does not store           *)
(*    re-creates the timer with the due time the running timer has anyway  *)
(*    (the firing time plus one period).                                   *)
(***************************************************************************)
ElapseTime ==
    /\ ~EffectsPending
    /\ \A t \in timers : t.due > now
    /\ explosions' = [ k \in 1..Len(explosions) |->
                         [ explosions[k] EXCEPT
                             !.startedAt = Max(@ - TimeStep, now - TtlMs) ] ]
    /\ timers' = { [t EXCEPT !.due = @ - TimeStep] : t \in timers }
    /\ UNCHANGED << impact, scenarioVars, points, mitigationVars, explosionCtlVars,
                    snapshotVars, now, cleanupTimer, cleanupDeps, exposureDeps >>

\* setExplosions((prev) => [...prev, newExpl]) with MaxLive events followed:
\* explosions.length is one more than at the last run of the cleanup effect
triggerExplosionAtCapacity ==
    /\ ~EffectsPending
    /\ Len(explosions) = MaxLive
    /\ cleanupDeps' = Len(explosions) - 1
    /\ UNCHANGED << impact, scenarioVars, points, mitigationVars, explosionCtlVars,
                    explosions, snapshotVars, now, timers, cleanupTimer, exposureDeps >>

NextSweep ==
    \/ RunEffects
    \/ triggerExplosion
    \/ triggerExplosionAtCapacity
    \/ \E t \in timers : IntervalTick(t)
    \/ ElapseTime

\* React runs pending effects before the next event; a timer that is due
\* again and again fires; time passes again and again.  Triggers are the
\* user's: no fairness.
SpecSweep ==
    /\ Init
    /\ [][NextSweep]_vars
    /\ WF_vars(RunEffects)
    /\ SF_vars(\E t \in timers : IntervalTick(t))
    /\ SF_vars(ElapseTime)

(***************************************************************************)
(* Claim about the removal of events (specification SpecSweep).            *)
(***************************************************************************)
LiveId(i) == \E k \in 1..Len(explosions) : explosions[k].id = i
ExpiredId(i) ==
    \E k \in 1..Len(explosions) : explosions[k].id = i /\ ~Unexpired(explosions[k])

\* C14: every triggered explosion event is eventually removed from the live
\* set: under fair firing of the interval timer, an event whose age has
\* reached its ttl is removed by some later sweep, for every interleaving of
\* further triggers and sweeps (triggers less than 500 ms apart, which cancel
\* and re-create the interval timer at every change of the live-set size,
\* included).
C14_EventuallyRemoved ==
    \A i \in 1..MaxLive :
        /\ LiveId(i) ~> ~LiveId(i)
        /\ ExpiredId(i) ~> ~LiveId(i)
(***************************************************************************)
(* Claim about the base outcome (specification SpecScenario).              *)
(***************************************************************************)
\* a step that changes the strategy or a mitigation parameter and leaves the
\* diameter, the speed, the angle and the impact point as they are
MitigationChanged ==
    /\ mitigationVars' # mitigationVars
    /\ scenarioVars' = scenarioVars
    /\ impact' = impact

\* C15: the base outcome depends only on the scenario parameters: with
\* diameter, speed, angle and impact coordinate held fixed, any change of the
\* mitigation strategy or of a mitigation parameter (deltaVmm, leadYears,
\* evacRadiusKm, evacCoverage) leaves the base radii, the base population and
\* the base deaths unchanged; in particular the exposure effect that runs
\* after the change does not replace the point set behind the base estimate.
C15_BaseUnaffectedByMitigation ==
    [][ MitigationChanged =>
          /\ baseR' = baseR
          /\ popBase' = popBase
          /\ deathsBase' = deathsBase
          /\ \A f \in 1..NumSamples :
                /\ ExposureEffect(f)' = points
                /\ estimatePopulation(ExposureEffect(f).samples, baseR.severeRadiusKm)'
                      = popBase ]_vars
====
